---- MODULE Spec2Model ----
(***************************************************************************)
(* State-machine model of cifar_model.py: the layer-configuration compiler *)
(* make_layers and the factories cifar10_tiny, cifar10, carlini, cifar100. *)
(* One call is followed from its entry to its return or to the exception   *)
(* it raises.                                                              *)
(*                                                                         *)
(* Numbers.  The eps arguments are Python floats.  They are drawn from the *)
(* multiples of 1/2, which are exact binary floats, and are stored as the  *)
(* numerator h of h/2; the product eps * 255 is then exact too and is kept *)
(* as the numerator of a fraction over 2.                                  *)
(***************************************************************************)
EXTENDS Integers, Sequences, FiniteSets, TLC

\* Bounds of the model.
MaxN == 2
MaxLen == 3
MaxEps == 2

VARIABLES pc, fn, args, cfg, batch_norm, layers, in_channels, i, model,
          url, fetched, state_dict, events, err, ret

vars == <<pc, fn, args, cfg, batch_norm, layers, in_channels, i, model,
          url, fetched, state_dict, events, err, ret>>

(***************************************************************************)
(* Values                                                                  *)
(***************************************************************************)

\* The checkpoint mapping of lines 7-10: two keys, each with its URL.
model_urls ==
    (<<"cifar10">> :> "http://ml.cs.tsinghua.edu.cn/~chenxi/pytorch-models/cifar10-d875770b.pth")
    @@ (<<"cifar100">> :> "http://ml.cs.tsinghua.edu.cn/~chenxi/pytorch-models/cifar100-3a55a987.pth")

\* A literal key, and 'prefix{}'.format(e): the prefix followed by the
\* decimal digits of e.  The pair keeps both parts, as the string does.
Key(s) == <<s>>
Format(prefix, e) == <<prefix, e>>

\* (Variant: the product truncated towards minus infinity instead of rounded.)
RoundFloor(x2) == x2 \div 2

\* Python's round() of the float x2/2: to the nearest integer, a tie going
\* to the even neighbour.
Round(x2) ==
    IF x2 % 2 = 0 THEN x2 \div 2
    ELSE LET lo == (x2 - 1) \div 2
         IN  IF lo % 2 = 0 THEN lo ELSE lo + 1

\* Truth value of the pretrained argument in `if pretrained:`.
Truthy(p) == p = "True"

\* Configuration entries: the marker 'M', a bare int, a (channels, padding)
\* tuple.
M == [kind |-> "M"]
Bare(n) == [kind |-> "int", n |-> n]
Tup(n, p) == [kind |-> "tuple", n |-> n, p |-> p]

\* Layer objects.
MaxPool2d == [op |-> "MaxPool2d", kernel_size |-> 2, stride |-> 2]
Conv2d(cin, cout, pad) ==
    [op |-> "Conv2d", in_channels |-> cin, out_channels |-> cout,
     kernel_size |-> 3, padding |-> pad]
BatchNorm2d(n) == [op |-> "BatchNorm2d", num_features |-> n, affine |-> FALSE]
ReLU == [op |-> "ReLU"]
Dropout == [op |-> "Dropout"]
Linear(fin, fout) == [op |-> "Linear", in_features |-> fin, out_features |-> fout]

\* Inputs of one call.
NVals == 1 .. MaxN
PretrainedVals == {"None", "False", "True"}
PaddingVals == {0, 1, 2}
EpsVals == (0 - 1) .. MaxEps
EntryVals == {M} \cup {Bare(n) : n \in {8, 16}}
                 \cup {Tup(n, p) : n \in {8, 16}, p \in {0, 1}}
RECURSIVE SeqsUpTo(_, _)
SeqsUpTo(S, n) ==
    IF n = 0 THEN {<<>>}
    ELSE LET shorter == SeqsUpTo(S, n - 1)
         IN  shorter \cup {Append(s, x) : s \in {t \in shorter : Len(t) = n - 1}, x \in S}
CfgVals == SeqsUpTo(EntryVals, MaxLen)

\* The arguments of a call, every parameter at its default.
DefaultArgs ==
    [n_channel |-> 0, pretrained |-> "False", padding |-> 1, trained_adv |-> FALSE,
     trained_adv_l2_eps |-> 0, trained_yoshida_eps |-> 0, trained_static_eps |-> 0,
     trained_dynamic_eps |-> 0, load_inf |-> FALSE]

NoModel == [cls |-> "none"]
NoArtifact == [kind |-> "none"]
NoRet == [kind |-> "none"]

Init ==
    /\ pc = "idle"
    /\ fn = "none"
    /\ args = DefaultArgs
    /\ cfg = <<>>
    /\ batch_norm = FALSE
    /\ layers = <<>>
    /\ in_channels = 0
    /\ i = 0
    /\ model = NoModel
    /\ url = <<>>
    /\ fetched = NoArtifact
    /\ state_dict = NoArtifact
    /\ events = <<>>
    /\ err = "none"
    /\ ret = NoRet

(***************************************************************************)
(* Entry points                                                            *)
(***************************************************************************)

Enter(f, a) ==
    /\ fn' = f
    /\ args' = a
    /\ UNCHANGED <<cfg, batch_norm, layers, in_channels, i, model, url,
                   state_dict, fetched, events, err, ret>>

\* make_layers(cfg, batch_norm) called directly: lines 50-51.
CallMakeLayers ==
    /\ pc = "idle"
    /\ \E c \in CfgVals, bn \in BOOLEAN :
          /\ cfg' = c
          /\ batch_norm' = bn
    /\ fn' = "make_layers"
    /\ layers' = <<>>
    /\ in_channels' = 3
    /\ i' = 1
    /\ pc' = "loop"
    /\ UNCHANGED <<args, model, url, state_dict, fetched, events, err, ret>>

CallCifar10Tiny ==
    /\ pc = "idle"
    /\ \E n \in NVals, p \in PretrainedVals, pad \in PaddingVals, adv \in BOOLEAN :
          Enter("cifar10_tiny",
                [DefaultArgs EXCEPT !.n_channel = n, !.pretrained = p,
                                    !.padding = pad, !.trained_adv = adv])
    /\ pc' = "cfg"

CallCifar10 ==
    /\ pc = "idle"
    /\ \E n \in NVals, p \in PretrainedVals, a \in EpsVals, y \in EpsVals,
          s \in EpsVals, d \in EpsVals, inf \in BOOLEAN :
          Enter("cifar10",
                [DefaultArgs EXCEPT !.n_channel = n, !.pretrained = p,
                                    !.trained_adv_l2_eps = a,
                                    !.trained_yoshida_eps = y,
                                    !.trained_static_eps = s,
                                    !.trained_dynamic_eps = d,
                                    !.load_inf = inf])
    /\ pc' = "cfg"

CallCarlini ==
    /\ pc = "idle"
    /\ \E p \in PretrainedVals :
          Enter("carlini", [DefaultArgs EXCEPT !.pretrained = p])
    /\ pc' = "cfg"

CallCifar100 ==
    /\ pc = "idle"
    /\ \E n \in NVals, p \in PretrainedVals :
          Enter("cifar100", [DefaultArgs EXCEPT !.n_channel = n, !.pretrained = p])
    /\ pc' = "cfg"

(***************************************************************************)
(* The Configuration each factory builds, and the call of make_layers      *)
(***************************************************************************)

\* (Variant: the second arm an `else`, so that cfg is always bound.)
CfgBoundAlways(f, a) == TRUE

\* Whether the factory binds cfg: cifar10_tiny binds it in the two arms of
\* lines 67-70 only.
CfgBound(f, a) == f = "cifar10_tiny" => a.padding \in {0, 1}

TinyCfg(n, padding) ==
    IF padding = 1
    THEN <<Tup(n, padding), M, Tup(n, padding), M, Tup(2 * n, padding), M,
           Tup(2 * n, 0), M>>
    ELSE <<Tup(n, padding), Tup(n, padding), M, Tup(2 * n, padding), M,
           Tup(2 * n, 0), M>>

VggCfg(n) ==
    <<Bare(n), Bare(n), M, Bare(2 * n), Bare(2 * n), M, Bare(4 * n), Bare(4 * n), M,
      Tup(8 * n, 0), M>>

CarliniCfg == <<Tup(64, 0), Tup(64, 0), M, Tup(128, 0), Tup(128, 0), M>>

FactoryCfg(f, a) ==
    CASE f = "cifar10_tiny" -> TinyCfg(a.n_channel, a.padding)
      [] f = "cifar10"      -> VggCfg(a.n_channel)
      [] f = "carlini"      -> CarliniCfg
      [] f = "cifar100"     -> VggCfg(a.n_channel)

FactoryBatchNorm(f) == f \in {"cifar10", "cifar100"}

\* The factory binds cfg and enters make_layers.
BuildCfg ==
    /\ pc = "cfg"
    /\ CfgBound(fn, args)
    /\ cfg' = FactoryCfg(fn, args)
    /\ batch_norm' = FactoryBatchNorm(fn)
    /\ layers' = <<>>
    /\ in_channels' = 3
    /\ i' = 1
    /\ pc' = "loop"
    /\ UNCHANGED <<fn, args, model, url, state_dict, fetched, events, err, ret>>

\* cifar10_tiny with a padding other than 0 and 1: line 71 reads cfg, which
\* no arm has bound.
CfgUnbound ==
    /\ pc = "cfg"
    /\ ~CfgBound(fn, args)
    /\ err' = "UnboundLocalError"
    /\ pc' = "failed"
    /\ UNCHANGED <<fn, args, cfg, batch_norm, layers, in_channels, i, model,
                   url, state_dict, fetched, events, ret>>

(***************************************************************************)
(* make_layers: one action per iteration of the loop of lines 52-63        *)
(***************************************************************************)

\* (Variant: every convolution padded by the default, the tuple's padding
\* ignored.)
PaddingAlways1(v) == 1

IsPool(v) == v.kind = "M"
Padding(v) == IF v.kind = "tuple" THEN v.p ELSE 1
OutChannels(v) == v.n

ConvGroup(cin, v, bn) ==
    IF bn
    THEN <<Conv2d(cin, OutChannels(v), Padding(v)), BatchNorm2d(OutChannels(v)), ReLU>>
    ELSE <<Conv2d(cin, OutChannels(v), Padding(v)), ReLU>>

\* (Variant: `layers = [...]` for `layers += [...]` in the pooling arm.)
LoopPoolAssign ==
    /\ pc = "loop"
    /\ i <= Len(cfg)
    /\ cfg[i].kind = "M"
    /\ layers' = <<MaxPool2d>>
    /\ i' = i + 1
    /\ UNCHANGED <<pc, fn, args, cfg, batch_norm, in_channels, model, url,
                   state_dict, fetched, events, err, ret>>

LoopPool ==
    /\ pc = "loop"
    /\ i <= Len(cfg)
    /\ IsPool(cfg[i])
    /\ layers' = layers \o <<MaxPool2d>>
    /\ i' = i + 1
    /\ UNCHANGED <<pc, fn, args, cfg, batch_norm, in_channels, model, url,
                   state_dict, fetched, events, err, ret>>

LoopConv ==
    /\ pc = "loop"
    /\ i <= Len(cfg)
    /\ ~IsPool(cfg[i])
    /\ layers' = layers \o ConvGroup(in_channels, cfg[i], batch_norm)
    /\ in_channels' = OutChannels(cfg[i])
    /\ i' = i + 1
    /\ UNCHANGED <<pc, fn, args, cfg, batch_norm, model, url, state_dict, fetched,
                   events, err, ret>>

\* Line 64, make_layers called directly: the Sequential goes to the caller.
MakeLayersReturn ==
    /\ pc = "loop"
    /\ i > Len(cfg)
    /\ fn = "make_layers"
    /\ ret' = [kind |-> "layers", layers |-> layers]
    /\ pc' = "returned"
    /\ UNCHANGED <<fn, args, cfg, batch_norm, layers, in_channels, i, model,
                   url, state_dict, fetched, events, err>>

(***************************************************************************)
(* Construction of the Network                                             *)
(***************************************************************************)

\* (Variant: cifar10_tiny sizing its head as 2 * n_channel for either
\* padding.)
ClassifierInTiny(f, a) ==
    CASE f = "cifar10_tiny" -> 2 * a.n_channel
      [] f = "cifar10"      -> 8 * a.n_channel
      [] f = "carlini"      -> 128 * 5 * 5
      [] f = "cifar100"     -> 8 * a.n_channel

\* The n_channel argument each factory gives to the classifier head.
ClassifierIn(f, a) ==
    CASE f = "cifar10_tiny" ->
           IF a.padding = 1 THEN 2 * a.n_channel ELSE 4 * 2 * a.n_channel
      [] f = "cifar10"      -> 8 * a.n_channel
      [] f = "carlini"      -> 128 * 5 * 5
      [] f = "cifar100"     -> 8 * a.n_channel

NumClasses(f) == IF f = "cifar100" THEN 100 ELSE 10

CIFARHead(n_channel, num_classes) == <<Linear(n_channel, num_classes)>>

CarliniHead(n_channel) ==
    <<Linear(n_channel, 256), ReLU, Dropout, Linear(256, 256), ReLU, Linear(256, 10)>>

\* The names of the state_dict entries of a Network: weight and bias of each
\* Conv2d and Linear, the running statistics of each BatchNorm2d (which has
\* no weight or bias, affine being False).  Indices are those of Sequential,
\* from 0.
EntryNames(layer) ==
    CASE layer.op \in {"Conv2d", "Linear"} -> {"weight", "bias"}
      [] layer.op = "BatchNorm2d"          -> {"running_mean", "running_var"}
      [] OTHER                             -> {}

StateKeys(features, classifier) ==
    UNION {{<<"features", j - 1, e>> : e \in EntryNames(features[j])} : j \in DOMAIN features}
    \cup UNION {{<<"classifier", j - 1, e>> : e \in EntryNames(classifier[j])} : j \in DOMAIN classifier}

\* CIFAR(layers, n_channel, num_classes) and Carlini(layers, n_channel);
\* params tells, for each entry, whether its value came from a checkpoint.
Network(f, a, features) ==
    LET head == IF f = "carlini" THEN CarliniHead(ClassifierIn(f, a))
                ELSE CIFARHead(ClassifierIn(f, a), NumClasses(f))
    IN  [cls |-> IF f = "carlini" THEN "Carlini" ELSE "CIFAR",
         features |-> features,
         classifier |-> head,
         params |-> [k \in StateKeys(features, head) |-> FALSE]]

\* make_layers returns to the factory, which constructs the Network.
Construct ==
    /\ pc = "loop"
    /\ i > Len(cfg)
    /\ fn # "make_layers"
    /\ model' = Network(fn, args, layers)
    /\ pc' = "branch"
    /\ UNCHANGED <<fn, args, cfg, batch_norm, layers, in_channels, i, url,
                   state_dict, fetched, events, err, ret>>

(***************************************************************************)
(* The pretrained branch                                                   *)
(***************************************************************************)

\* (Variant: every factory testing `pretrained is not None`.)
WantsCheckpointNotNone(f, a) == a.pretrained # "None"

\* The test that guards the loading code: `if pretrained:` in cifar10_tiny,
\* cifar10 and carlini, `if pretrained is not None:` in cifar100.
WantsCheckpoint(f, a) ==
    IF f = "cifar100" THEN a.pretrained # "None" ELSE Truthy(a.pretrained)

\* (Variant: the Yoshida arm tested before the adversarial-L2 arm.)
Cifar10KeySwapped(a) ==
    IF a.trained_yoshida_eps > 0
    THEN Format("cifar10_yoshida_", Round(a.trained_yoshida_eps * 255))
    ELSE IF a.trained_adv_l2_eps > 0
    THEN IF a.load_inf THEN Key("cifar10_inf_adv")
         ELSE Format("cifar10_advl2_", Round(a.trained_adv_l2_eps * 255))
    ELSE IF a.trained_static_eps > 0
    THEN Format("cifar10_static_", Round(a.trained_static_eps * 255))
    ELSE IF a.trained_dynamic_eps > 0
    THEN Format("cifar10_dynamic_", Round(a.trained_dynamic_eps * 255))
    ELSE IF a.load_inf
    THEN Key("cifar10_inf")
    ELSE Key("cifar10")

\* The if/elif chain of lines 90-112.
Cifar10Key(a) ==
    IF a.trained_adv_l2_eps > 0
    THEN IF a.load_inf THEN Key("cifar10_inf_adv")
         ELSE Format("cifar10_advl2_", Round(a.trained_adv_l2_eps * 255))
    ELSE IF a.trained_yoshida_eps > 0
    THEN Format("cifar10_yoshida_", Round(a.trained_yoshida_eps * 255))
    ELSE IF a.trained_static_eps > 0
    THEN Format("cifar10_static_", Round(a.trained_static_eps * 255))
    ELSE IF a.trained_dynamic_eps > 0
    THEN Format("cifar10_dynamic_", Round(a.trained_dynamic_eps * 255))
    ELSE IF a.load_inf
    THEN Key("cifar10_inf")
    ELSE Key("cifar10")

\* Lines 74-80.
TinyKey(a) ==
    IF a.padding = 1 THEN Key("cifar10_tiny")
    ELSE IF a.trained_adv THEN Key("cifar10_tinyb_adv")
    ELSE Key("cifar10_tinyb")

SelectedKey(f, a) ==
    CASE f = "cifar10_tiny" -> TinyKey(a)
      [] f = "cifar10"      -> Cifar10Key(a)
      [] f = "carlini"      -> Key("carlini")
      [] f = "cifar100"     -> Key("cifar100")

\* The two places that fetch with model_zoo.load_url and take state_dict()
\* of a fetched nn.Module (lines 112-113 and 133-134); the others use
\* th.load and keep what it returns.
ViaModelZoo(f, key) ==
    \/ f = "cifar100"
    \/ f = "cifar10" /\ key = Key("cifar10")

\* pretrained not set: line 116 (83, 126, 137) returns the fresh Network.
NotPretrained ==
    /\ pc = "branch"
    /\ ~WantsCheckpoint(fn, args)
    /\ ret' = [kind |-> "network", model |-> model]
    /\ pc' = "returned"
    /\ UNCHANGED <<fn, args, cfg, batch_norm, layers, in_channels, i, model,
                   url, state_dict, fetched, events, err>>

\* The branch computes its key.
SelectKey ==
    /\ pc = "branch"
    /\ WantsCheckpoint(fn, args)
    /\ url' = SelectedKey(fn, args)
    /\ pc' = "lookup"
    /\ UNCHANGED <<fn, args, cfg, batch_norm, layers, in_channels, i, model,
                   state_dict, fetched, events, err, ret>>

\* (Variant: a lookup that never fails, as model_urls.get(url) would be.)
HasKeyAlways(key) == TRUE

HasKey(key) == key \in DOMAIN model_urls

\* model_urls[url], evaluated before the loader is called.
LookupOK ==
    /\ pc = "lookup"
    /\ HasKey(url)
    /\ events' = Append(events, [ev |-> "lookup", key |-> url])
    /\ pc' = "fetch"
    /\ UNCHANGED <<fn, args, cfg, batch_norm, layers, in_channels, i, model,
                   url, state_dict, fetched, err, ret>>

LookupFail ==
    /\ pc = "lookup"
    /\ ~HasKey(url)
    /\ events' = Append(events, [ev |-> "lookup", key |-> url])
    /\ err' = "KeyError"
    /\ pc' = "failed"
    /\ UNCHANGED <<fn, args, cfg, batch_norm, layers, in_channels, i, model,
                   url, state_dict, fetched, ret>>

\* What the loader can hand back for a Network with entries `keys`: a
\* mapping, an nn.Module, or some other object.  A mapping or Module holds
\* the entries `keys`; `bad` are those whose shape differs from the
\* Network's.
Contents(keys) ==
    {[keys |-> keys, bad |-> {}],
     [keys |-> {}, bad |-> {}],
     [keys |-> keys \cup {<<"unexpected", 0, "weight">>}, bad |-> {}]}
    \cup {[keys |-> keys \ {k}, bad |-> {}] : k \in keys}
    \cup {[keys |-> keys, bad |-> {k}] : k \in keys}

Artifacts(keys) ==
    {[kind |-> "other", keys |-> {}, bad |-> {}]}
    \cup {[kind |-> t, keys |-> c.keys, bad |-> c.bad] :
            t \in {"mapping", "Module"}, c \in Contents(keys)}

\* m.state_dict() if isinstance(m, nn.Module) else m, where the code has it.
Unwrap(f, key, m) ==
    IF ViaModelZoo(f, key) /\ m.kind = "Module"
    THEN [m EXCEPT !.kind = "mapping"]
    ELSE m

\* th.load / model_zoo.load_url returns an object; state_dict is bound.
FetchOK ==
    /\ pc = "fetch"
    /\ \E m \in Artifacts(DOMAIN model.params) :
          /\ fetched' = m
          /\ state_dict' = Unwrap(fn, url, m)
    /\ events' = Append(events, [ev |-> "fetch", key |-> url])
    /\ pc' = "validate"
    /\ UNCHANGED <<fn, args, cfg, batch_norm, layers, in_channels, i, model,
                   url, err, ret>>

\* The loader raises (no such file, no connection, a corrupt archive).
FetchFail ==
    /\ pc = "fetch"
    /\ events' = Append(events, [ev |-> "fetch", key |-> url])
    /\ err' = "IOError"
    /\ pc' = "failed"
    /\ UNCHANGED <<fn, args, cfg, batch_norm, layers, in_channels, i, model,
                   url, state_dict, fetched, ret>>

\* (Variant: the assertion left out.)
IsMappingAlways(sd) == TRUE

\* isinstance(state_dict, (dict, OrderedDict))
IsMapping(sd) == sd.kind = "mapping"

AssertOK ==
    /\ pc = "validate"
    /\ IsMapping(state_dict)
    /\ events' = Append(events, [ev |-> "validate", key |-> url])
    /\ pc' = "load"
    /\ UNCHANGED <<fn, args, cfg, batch_norm, layers, in_channels, i, model,
                   url, state_dict, fetched, err, ret>>

AssertFail ==
    /\ pc = "validate"
    /\ ~IsMapping(state_dict)
    /\ events' = Append(events, [ev |-> "validate", key |-> url])
    /\ err' = "AssertionError"
    /\ pc' = "failed"
    /\ UNCHANGED <<fn, args, cfg, batch_norm, layers, in_channels, i, model,
                   url, state_dict, fetched, ret>>

\* model.load_state_dict(state_dict), strict: the library copies every entry
\* of the checkpoint that has a parameter of that name and shape, and then
\* raises if an entry was missing, unexpected or of another shape.
Copied(sd, own) == {k \in sd.keys \cap own : k \notin sd.bad}
Matches(sd, own) == sd.keys = own /\ sd.bad = {}

LoadOK ==
    /\ pc = "load"
    /\ Matches(state_dict, DOMAIN model.params)
    /\ model' = [model EXCEPT !.params =
                    [k \in DOMAIN model.params |->
                        k \in Copied(state_dict, DOMAIN model.params)]]
    /\ events' = Append(events, [ev |-> "copy", key |-> url])
    /\ pc' = "loaded"
    /\ UNCHANGED <<fn, args, cfg, batch_norm, layers, in_channels, i, url,
                   state_dict, fetched, err, ret>>

LoadFail ==
    /\ pc = "load"
    /\ ~Matches(state_dict, DOMAIN model.params)
    /\ model' = [model EXCEPT !.params =
                    [k \in DOMAIN model.params |->
                        k \in Copied(state_dict, DOMAIN model.params)]]
    /\ events' = Append(events, [ev |-> "copy", key |-> url])
    /\ err' = "RuntimeError"
    /\ pc' = "failed"
    /\ UNCHANGED <<fn, args, cfg, batch_norm, layers, in_channels, i, url,
                   state_dict, fetched, ret>>

\* return model, after a load.
ReturnLoaded ==
    /\ pc = "loaded"
    /\ ret' = [kind |-> "network", model |-> model]
    /\ pc' = "returned"
    /\ UNCHANGED <<fn, args, cfg, batch_norm, layers, in_channels, i, model,
                   url, state_dict, fetched, events, err>>

Next ==
    \/ CallMakeLayers
    \/ CallCifar10Tiny
    \/ CallCifar10
    \/ CallCarlini
    \/ CallCifar100
    \/ BuildCfg
    \/ CfgUnbound
    \/ LoopPool
    \/ LoopConv
    \/ MakeLayersReturn
    \/ Construct
    \/ NotPretrained
    \/ SelectKey
    \/ LookupOK
    \/ LookupFail
    \/ FetchOK
    \/ FetchFail
    \/ AssertOK
    \/ AssertFail
    \/ LoadOK
    \/ LoadFail
    \/ ReturnLoaded

Spec == Init /\ [][Next]_vars

(***************************************************************************)
(* Properties                                                              *)
(***************************************************************************)

\* e is the integer nearest to x2/2, the even one of the two on a tie.
RoundIs(e, x2) ==
    /\ 2 * e - x2 \in {0 - 1, 0, 1}
    /\ 2 * e # x2 => e % 2 = 0

EpsOrder ==
    <<"trained_adv_l2_eps", "trained_yoshida_eps", "trained_static_eps",
      "trained_dynamic_eps">>
FamilyPrefix ==
    <<"cifar10_advl2_", "cifar10_yoshida_", "cifar10_static_", "cifar10_dynamic_">>

\* A pretrained call of cifar10 has computed its key.
KeySelected == fn = "cifar10" /\ url # <<>>

Lookups == SelectSeq(events, LAMBDA x : x.ev = "lookup")
Fetches == SelectSeq(events, LAMBDA x : x.ev = "fetch")
Copies == SelectSeq(events, LAMBDA x : x.ev = "copy")

\* C1, as claimed: the key of cifar10 is that of the first parameter, in
\* the order adv_l2, yoshida, static, dynamic, load_inf, that is nonzero
\* (load_inf: true), computed as if every later parameter were zero/false,
\* and it is 'cifar10' only when none is nonzero/true.
C1_AsClaimed ==
    KeySelected =>
        LET nz(k) == args[EpsOrder[k]] # 0
            first(k) == nz(k) /\ \A j \in 1 .. (k - 1) : ~nz(j)
            none == \A k \in 1 .. 4 : ~nz(k)
        IN  /\ \A k \in 1 .. 4 :
                 first(k) => /\ Len(url) = 2
                             /\ url[1] = FamilyPrefix[k]
                             /\ RoundIs(url[2], 255 * args[EpsOrder[k]])
            /\ (none /\ args.load_inf) => url = <<"cifar10_inf">>
            /\ url = <<"cifar10">> <=> (none /\ ~args.load_inf)

\* C1, amended: the key of cifar10 is that of the first parameter, in the
\* order adv_l2, yoshida, static, dynamic, load_inf, that is > 0 (load_inf:
\* true), computed as if every later parameter were zero/false, except that
\* trained_adv_l2_eps > 0 together with load_inf gives 'cifar10_inf_adv';
\* it is 'cifar10' only when no eps is > 0 and load_inf is false.
C1_Precedence ==
    KeySelected =>
        LET pos(k) == args[EpsOrder[k]] > 0
            first(k) == pos(k) /\ \A j \in 1 .. (k - 1) : ~pos(j)
            none == \A k \in 1 .. 4 : ~pos(k)
        IN  /\ \A k \in 1 .. 4 :
                 first(k) =>
                    IF k = 1 /\ args.load_inf
                    THEN url = <<"cifar10_inf_adv">>
                    ELSE /\ Len(url) = 2
                         /\ url[1] = FamilyPrefix[k]
                         /\ RoundIs(url[2], 255 * args[EpsOrder[k]])
            /\ (none /\ args.load_inf) => url = <<"cifar10_inf">>
            /\ url = <<"cifar10">> <=> (none /\ ~args.load_inf)

\* A key chosen with a skipped negative parameter and two later ones set.
C1_Witness ==
    /\ KeySelected
    /\ args.trained_adv_l2_eps < 0
    /\ args.trained_yoshida_eps > 0
    /\ args.trained_dynamic_eps > 0
    /\ args.load_inf
    /\ url[1] = "cifar10_yoshida_"

\* C2: in cifar10 with pretrained=True, load_inf=False and
\* trained_adv_l2_eps > 0, the one key computed and looked up is
\* 'cifar10_advl2_<e>' with e = round(255 * trained_adv_l2_eps), whatever
\* the other three eps are.
C2_AdvL2Key ==
    (/\ fn = "cifar10"
     /\ args.pretrained = "True"
     /\ ~args.load_inf
     /\ args.trained_adv_l2_eps > 0)
    => LET isAdv(k) == /\ Len(k) = 2
                       /\ k[1] = "cifar10_advl2_"
                       /\ RoundIs(k[2], 255 * args.trained_adv_l2_eps)
       IN  /\ url # <<>> => isAdv(url)
           /\ \A j \in DOMAIN events : events[j].ev = "lookup" => isAdv(events[j].key)
           /\ Len(Lookups) <= 1
           /\ pc = "failed" => Len(Lookups) = 1

\* The adversarial-L2 key looked up although a Yoshida eps is set as well.
C2_Witness ==
    /\ fn = "cifar10"
    /\ args.pretrained = "True"
    /\ ~args.load_inf
    /\ args.trained_adv_l2_eps = 1
    /\ args.trained_yoshida_eps > 0
    /\ Len(Lookups) = 1
    /\ events[1].key = <<"cifar10_advl2_", 128>>

\* C3: cifar10 with pretrained=False (or None) never looks up a key,
\* fetches, validates or copies: the call is in construction or has
\* returned the fresh Network.
C3_NoIO ==
    (fn = "cifar10" /\ args.pretrained # "True")
    => /\ events = <<>>
       /\ url = <<>>
       /\ fetched = NoArtifact
       /\ state_dict = NoArtifact
       /\ err = "none"
       /\ pc \in {"cfg", "loop", "branch", "returned"}
       /\ pc = "returned" =>
             /\ ret.kind = "network"
             /\ ret.model = model
             /\ \A k \in DOMAIN model.params : ~model.params[k]

\* cifar10(pretrained=False) returned with eps and load_inf set.
C3_Witness ==
    /\ fn = "cifar10"
    /\ args.pretrained = "False"
    /\ args.trained_adv_l2_eps > 0
    /\ args.load_inf
    /\ pc = "returned"
    /\ ret.kind = "network"

Factories == {"cifar10_tiny", "cifar10", "carlini", "cifar100"}

\* The default of the pretrained parameter in each signature.
PretrainedDefault(f) == IF f = "cifar100" THEN "None" ELSE "False"

\* C4, as claimed: in every factory a call whose pretrained argument is
\* False, or is left at its default, performs no key lookup and no fetch,
\* and what it returns is a Network with freshly constructed parameters.
C4_AsClaimed ==
    (fn \in Factories /\ args.pretrained \in {"False", PretrainedDefault(fn)})
    => /\ events = <<>>
       /\ url = <<>>
       /\ fetched = NoArtifact
       /\ pc = "returned" =>
             /\ ret.kind = "network"
             /\ \A k \in DOMAIN ret.model.params : ~ret.model.params[k]

\* The layers of a Sequential that are convolutions or poolings, in order.
Skeleton(ls) ==
    [j \in DOMAIN SelectSeq(ls, LAMBDA l : l.op \in {"Conv2d", "MaxPool2d"}) |->
        SelectSeq(ls, LAMBDA l : l.op \in {"Conv2d", "MaxPool2d"})[j].op]

CountOp(ls, op) == Cardinality({j \in DOMAIN ls : ls[j].op = op})
CountMarkers(c) == Cardinality({j \in DOMAIN c : c[j] = [kind |-> "M"]})

\* The entries of the Configuration that make_layers has processed.
Processed == SubSeq(cfg, 1, i - 1)

\* C5: for every Configuration and either batch_norm, the layers built have
\* as many MaxPool2d(2, stride 2) layers as the Configuration has markers,
\* and poolings and convolutions follow each other as markers and channel
\* entries do.
C5_PoolCount ==
    pc \in {"loop", "branch", "returned"} =>
        /\ CountOp(layers, "MaxPool2d") = CountMarkers(Processed)
        /\ Skeleton(layers) =
              [j \in DOMAIN Processed |->
                  IF Processed[j] = [kind |-> "M"] THEN "MaxPool2d" ELSE "Conv2d"]
        /\ \A j \in DOMAIN layers :
              layers[j].op = "MaxPool2d" =>
                  layers[j] = [op |-> "MaxPool2d", kernel_size |-> 2, stride |-> 2]
        /\ pc # "loop" => Processed = cfg

\* make_layers has returned for a Configuration with a leading marker, two
\* markers in a row and a trailing convolution, with batch_norm.
C5_Witness ==
    /\ fn = "make_layers"
    /\ pc = "returned"
    /\ batch_norm
    /\ Len(cfg) = 3
    /\ cfg[1].kind = "M"
    /\ cfg[2].kind = "M"
    /\ cfg[3].kind = "tuple"
    /\ CountOp(ret.layers, "MaxPool2d") = 2

\* The compiler as the specification words it, on the entries c with
\* `current` input channels.
RECURSIVE RefLayers(_, _, _)
RefLayers(c, current, bn) ==
    IF c = <<>> THEN <<>>
    ELSE LET v == Head(c)
         IN  IF v.kind = "M"
             THEN <<[op |-> "MaxPool2d", kernel_size |-> 2, stride |-> 2]>>
                  \o RefLayers(Tail(c), current, bn)
             ELSE <<[op |-> "Conv2d", in_channels |-> current,
                     out_channels |-> v.n, kernel_size |-> 3,
                     padding |-> IF v.kind = "int" THEN 1 ELSE v.p]>>
                  \o (IF bn
                      THEN <<[op |-> "BatchNorm2d", num_features |-> v.n,
                              affine |-> FALSE]>>
                      ELSE <<>>)
                  \o <<[op |-> "ReLU"]>>
                  \o RefLayers(Tail(c), v.n, bn)

\* The value of the last channel entry of c, 3 when it has none.
RECURSIVE LastChannels(_)
LastChannels(c) ==
    IF c = <<>> THEN 3
    ELSE IF c[Len(c)].kind = "M" THEN LastChannels(SubSeq(c, 1, Len(c) - 1))
    ELSE c[Len(c)].n

\* C6: make_layers builds what the reference compiler builds: a pool for a
\* marker; conv(current -> N, kernel 3, padding P or 1), a non-affine
\* normalization iff batch_norm, and a ReLU for a channel entry N or (N, P);
\* the running channel count is the last channel entry's value, 3 before
\* the first; and [8, 'M', 16] without batch_norm gives conv(3->8), relu,
\* pool, conv(8->16), relu with final count 16.
C6_Compiler ==
    pc \in {"loop", "branch", "returned"} =>
        /\ layers = RefLayers(Processed, 3, batch_norm)
        /\ in_channels = LastChannels(Processed)
        /\ (/\ pc = "returned"
            /\ fn = "make_layers"
            /\ cfg = <<[kind |-> "int", n |-> 8], [kind |-> "M"], [kind |-> "int", n |-> 16]>>
            /\ ~batch_norm)
           => /\ ret.layers =
                    <<[op |-> "Conv2d", in_channels |-> 3, out_channels |-> 8,
                       kernel_size |-> 3, padding |-> 1],
                      [op |-> "ReLU"],
                      [op |-> "MaxPool2d", kernel_size |-> 2, stride |-> 2],
                      [op |-> "Conv2d", in_channels |-> 8, out_channels |-> 16,
                       kernel_size |-> 3, padding |-> 1],
                      [op |-> "ReLU"]>>
              /\ in_channels = 16

\* make_layers([8, 'M', 16], batch_norm=False) has returned.
C6_Witness ==
    /\ pc = "returned"
    /\ fn = "make_layers"
    /\ cfg = <<[kind |-> "int", n |-> 8], [kind |-> "M"], [kind |-> "int", n |-> 16]>>
    /\ ~batch_norm
    /\ Len(ret.layers) = 5

\* The calls that select a key other than 'cifar10' and 'cifar100'.
SelectsMissingKey ==
    \/ fn = "cifar10_tiny" /\ args.pretrained = "True" /\ args.padding \in {0, 1}
    \/ fn = "carlini" /\ args.pretrained = "True"
    \/ /\ fn = "cifar10"
       /\ args.pretrained = "True"
       /\ \/ \E k \in 1 .. 4 : args[EpsOrder[k]] > 0
          \/ args.load_inf

\* The calls that select 'cifar10' or 'cifar100'.
SelectsPresentKey ==
    \/ /\ fn = "cifar10"
       /\ args.pretrained = "True"
       /\ \A k \in 1 .. 4 : args[EpsOrder[k]] <= 0
       /\ ~args.load_inf
    \/ fn = "cifar100" /\ args.pretrained # "None"

\* C7: with the two keys of model_urls, a pretrained call of cifar10_tiny
\* (padding 0 or 1), of carlini, or of cifar10 with an eps > 0 or load_inf
\* fails with a KeyError at the lookup, before any fetch, and returns
\* nothing; a pretrained call of cifar10 with every eps <= 0 and load_inf
\* false, or of cifar100, never fails with a KeyError.
C7_MissingKeys ==
    /\ SelectsMissingKey =>
          /\ pc \in {"cfg", "loop", "branch", "lookup", "failed"}
          /\ url # <<>> => url \notin {<<"cifar10">>, <<"cifar100">>}
          /\ Fetches = <<>>
          /\ fetched = NoArtifact
          /\ ret.kind = "none"
          /\ pc = "failed" => /\ err = "KeyError"
                              /\ Len(events) = 1
                              /\ events[1].ev = "lookup"
    /\ SelectsPresentKey =>
          /\ err # "KeyError"
          /\ url # <<>> => url \in {<<"cifar10">>, <<"cifar100">>}
          /\ pc = "failed" => Len(events) >= 2

\* cifar10(pretrained=True, load_inf=True) has failed at its lookup.
C7_Witness ==
    /\ fn = "cifar10"
    /\ args.pretrained = "True"
    /\ args.load_inf
    /\ args.trained_adv_l2_eps = 0
    /\ pc = "failed"
    /\ err = "KeyError"
    /\ url = <<"cifar10_inf">>

\* The steps of a load happen in the order lookup, fetch, validation, copy.
StepOrder ==
    /\ Len(events) <= 4
    /\ \A j \in DOMAIN events :
          events[j].ev = <<"lookup", "fetch", "validate", "copy">>[j]

\* The entries of the object sd are exactly the Network's, shapes included.
SameEntries(sd) == sd.keys = DOMAIN model.params /\ sd.bad = {}

\* C8, as claimed: the steps run in the order lookup, fetch, validation,
\* copy; a fetched object that is not a mapping makes the call fail with
\* the assertion error before any copy; a checkpoint whose keys or shapes
\* differ from the Network's makes it fail with the mismatch error; and a
\* failed call has returned no Network, has not retried, and has updated no
\* parameter of the Network from the checkpoint.
C8_AsClaimed ==
    /\ StepOrder
    /\ (fetched # NoArtifact /\ fetched.kind # "mapping") =>
          /\ Copies = <<>>
          /\ pc \in {"validate", "failed"}
          /\ pc = "failed" => err = "AssertionError"
    /\ (fetched # NoArtifact /\ fetched.kind = "mapping" /\ ~SameEntries(fetched)) =>
          /\ pc \in {"validate", "load", "failed"}
          /\ pc = "failed" => err = "RuntimeError"
    /\ pc = "failed" =>
          /\ ret.kind = "none"
          /\ Len(Lookups) <= 1
          /\ Len(Fetches) <= 1
          /\ model # NoModel => \A k \in DOMAIN model.params : ~model.params[k]

\* The fetched object passes the validation: a mapping, or an nn.Module
\* where the code takes its state_dict() (the key 'cifar10' in cifar10, and
\* cifar100).
Accepted(m) ==
    \/ m.kind = "mapping"
    \/ /\ m.kind = "Module"
       /\ \/ fn = "cifar100"
          \/ fn = "cifar10" /\ url = <<"cifar10">>

\* C8, amended: the steps run in the order lookup, fetch, validation, copy;
\* a fetched object that is neither a mapping nor, where the code takes
\* state_dict() of it, an nn.Module makes the call fail with the assertion
\* error before any copy; an accepted checkpoint whose keys or shapes differ
\* from the Network's makes it fail with the mismatch error; a failed call
\* has returned no Network and has not retried, so that a returned Network
\* has either all of its parameters from the checkpoint or none.
C8_LoadOrFail ==
    /\ StepOrder
    /\ (fetched # NoArtifact /\ ~Accepted(fetched)) =>
          /\ Copies = <<>>
          /\ pc \in {"validate", "failed"}
          /\ pc = "failed" => err = "AssertionError"
    /\ (fetched # NoArtifact /\ Accepted(fetched) /\ ~SameEntries(fetched)) =>
          /\ pc \in {"validate", "load", "failed"}
          /\ pc = "failed" => err = "RuntimeError"
    /\ pc = "failed" =>
          /\ ret.kind = "none"
          /\ Len(Lookups) <= 1
          /\ Len(Fetches) <= 1
          /\ Len(Copies) <= 1
    /\ ret.kind = "network" =>
          /\ err = "none"
          /\ IF Copies = <<>>
             THEN \A k \in DOMAIN ret.model.params : ~ret.model.params[k]
             ELSE \A k \in DOMAIN ret.model.params : ret.model.params[k]

\* A call that fetched an nn.Module with an entry missing has failed in
\* load_state_dict.
C8_Witness ==
    /\ pc = "failed"
    /\ err = "RuntimeError"
    /\ fetched.kind = "Module"
    /\ fetched.keys # {}
    /\ Len(Copies) = 1
    /\ ret.kind = "none"

\* Channels and side of the feature map after the first j layers of ls, for
\* a 3 x 32 x 32 input.
RECURSIVE ChannelsAfter(_, _)
ChannelsAfter(ls, j) ==
    IF j = 0 THEN 3
    ELSE IF ls[j].op = "Conv2d" THEN ls[j].out_channels
    ELSE ChannelsAfter(ls, j - 1)

RECURSIVE SideAfter(_, _)
SideAfter(ls, j) ==
    IF j = 0 THEN 32
    ELSE IF ls[j].op = "Conv2d" THEN SideAfter(ls, j - 1) - 2 + 2 * ls[j].padding
    ELSE IF ls[j].op = "MaxPool2d" THEN SideAfter(ls, j - 1) \div 2
    ELSE SideAfter(ls, j - 1)

\* C9: for a 32x32 input the first Linear of every factory's head takes
\* channels x side x side of the Feature Stage output: 8n for cifar10 and
\* cifar100 (1x1), 2n for cifar10_tiny with padding 1 (1x1), 4*2n for
\* cifar10_tiny with padding 0 (2x2 of 2n channels), 128*5*5 for carlini;
\* the side is at least 1 after every layer.
C9_HeadWidth ==
    model # NoModel =>
        LET f == model.features
            c == ChannelsAfter(f, Len(f))
            side == SideAfter(f, Len(f))
            width == model.classifier[1].in_features
            n == args.n_channel
        IN  /\ model.classifier[1].op = "Linear"
            /\ width = c * side * side
            /\ \A j \in 0 .. Len(f) : SideAfter(f, j) >= 1
            /\ fn \in {"cifar10", "cifar100"} => side = 1 /\ width = 8 * n
            /\ (fn = "cifar10_tiny" /\ args.padding = 1) => side = 1 /\ width = 2 * n
            /\ (fn = "cifar10_tiny" /\ args.padding = 0) =>
                  side = 2 /\ c = 2 * n /\ width = 4 * 2 * n
            /\ fn = "carlini" => side = 5 /\ c = 128 /\ width = 128 * 5 * 5

\* cifar10_tiny(2, padding=0) has built its Network.
C9_Witness ==
    /\ fn = "cifar10_tiny"
    /\ args.padding = 0
    /\ args.n_channel = 2
    /\ model # NoModel
    /\ model.classifier[1].in_features = 16

\* C10: cifar10_tiny with a padding other than 0 and 1 fails before any
\* layer is built and before any lookup, whatever pretrained is; with
\* padding 0 or 1 and pretrained=False it returns a Network with 4
\* convolutions and 3, respectively 4, poolings.
C10_TinyPadding ==
    fn = "cifar10_tiny" =>
        /\ args.padding \notin {0, 1} =>
              /\ pc \in {"cfg", "failed"}
              /\ cfg = <<>>
              /\ layers = <<>>
              /\ model = NoModel
              /\ events = <<>>
              /\ url = <<>>
              /\ ret.kind = "none"
              /\ pc = "failed" => err = "UnboundLocalError"
        /\ (args.padding \in {0, 1} /\ args.pretrained = "False") =>
              /\ pc \in {"cfg", "loop", "branch", "returned"}
              /\ err = "none"
              /\ pc = "returned" =>
                    /\ ret.kind = "network"
                    /\ CountOp(ret.model.features, "Conv2d") = 4
                    /\ CountOp(ret.model.features, "MaxPool2d") =
                          (IF args.padding = 0 THEN 3 ELSE 4)

\* cifar10_tiny(padding=2, pretrained=True) has failed.
C10_Witness ==
    /\ fn = "cifar10_tiny"
    /\ args.padding = 2
    /\ args.pretrained = "True"
    /\ pc = "failed"
    /\ err = "UnboundLocalError"

====
